---- MODULE Spec2Model ----
(***************************************************************************)
(* Configuration resolution of gomplate: internal/config/configfile.go.    *)
(* A Config is merged with an override (MergeFrom), populated from command *)
(* line flags (ParseDataSourceFlags), validated (Validate) and finalized   *)
(* (ApplyDefaults).  Strings that the code only compares are TLA+ strings; *)
(* strings that the code splits are sequences of tokens.                   *)
(***************************************************************************)
EXTENDS Integers, Sequences, FiniteSets, TLC

VARIABLES
    c,          \* the Config the methods are called on
    pre,        \* c as it was before the last operation
    o,          \* the override handed to the last MergeFrom
    flags,      \* the arguments handed to the last ParseDataSourceFlags
    op,         \* the last operation run on c
    err,        \* the error the last operation returned
    panicked,   \* the last operation ended in a run-time panic
    applied     \* how many times ApplyDefaults has run on c

vars == <<c, pre, o, flags, op, err, panicked, applied>>

-----------------------------------------------------------------------------
(* Bounds of the model *)

\* longest inputFiles / outputFiles list of the validated configs
MaxFiles == 2
\* how many times ApplyDefaults is run on one config
MaxApply == 2
\* longest inputFiles / outputFiles list of the merged configs
MaxMergeFiles == 1
\* how many aliases the datasource and context mappings draw their keys from
MaxAliases == 2
\* how many --datasource arguments one command line carries
MaxDatasourceArgs == 1
\* how many --datasource-header arguments one command line carries
MaxHeaderArgs == 2

-----------------------------------------------------------------------------
(* Go values *)

\* a nil *url.URL
NilURL == "<nil>"

\* a map that may be nil: nil is TRUE for the nil map, m holds the entries
NilMap == [nil |-> TRUE, m |-> <<>>]
EmptyMap == [nil |-> FALSE, m |-> <<>>]
MkMap(f) == [nil |-> FALSE, m |-> f]

\* the zero DSConfig
ZeroDSConfig == [URL |-> NilURL, Header |-> NilMap]

\* the Config struct; the zero value is what Config{} and Parse of an empty
\* document yield
EmptyConfig ==
    [Input |-> "", InputFiles |-> <<>>, InputDir |-> "", ExcludeGlob |-> <<>>,
     OutputFiles |-> <<>>, OutputDir |-> "", OutputMap |-> "",
     SuppressEmpty |-> FALSE, ExecPipe |-> FALSE, PostExec |-> <<>>,
     OutMode |-> "", LDelim |-> "", RDelim |-> "",
     DataSources |-> NilMap, Context |-> NilMap, Plugins |-> NilMap,
     PluginTimeout |-> 0, Templates |-> <<>>,
     ExtraHeaders |-> NilMap,
     PostExecInput |-> "nil", OutWriter |-> "nil"]

\* an error value; NoErr is the nil error
NoErr == [kind |-> "nil", a |-> "", b |-> "", o |-> 0, f |-> 0]
MkErr(kind, a, b) == [kind |-> kind, a |-> a, b |-> b, o |-> 0, f |-> 0]

-----------------------------------------------------------------------------
(* isZero and the checks built on it *)

\* isZero on a string
isZeroString(v) == v = ""
\* isZero on a []string
isZeroList(v) == Len(v) = 0
\* isZero on a bool
isZeroBool(v) == ~v

\* notTogether: names and zero are parallel lists, zero[i] being isZero of
\* the i-th value; the loop is unrolled from index i with found carried along
RECURSIVE notTogetherFrom(_, _, _, _)
notTogetherFrom(names, zero, i, found) ==
    IF i > Len(names) THEN NoErr
    ELSE IF zero[i] THEN notTogetherFrom(names, zero, i + 1, found)
    ELSE IF found # "" THEN MkErr("notTogether", found, names[i])
    ELSE notTogetherFrom(names, zero, i + 1, names[i])

notTogether(names, zero) == notTogetherFrom(names, zero, 1, "")

mustTogether(left, right, lZero, rZero) ==
    IF ~lZero /\ rZero THEN MkErr("mustTogether", left, right) ELSE NoErr

-----------------------------------------------------------------------------
(* Validate *)

\* the number of inputs Validate counts
InputCount(cfg) ==
    IF Len(cfg.InputFiles) = 0 /\ cfg.Input # "" THEN 1 ELSE Len(cfg.InputFiles)

\* CountCheck with the execPipe exemption left out
CountCheckAlways(cfg) ==
    IF InputCount(cfg) # Len(cfg.OutputFiles)
    THEN [kind |-> "count", a |-> "outputFiles", b |-> "inputFiles",
          o |-> Len(cfg.OutputFiles), f |-> InputCount(cfg)]
    ELSE NoErr

\* the cardinality check of Validate
CountCheck(cfg) ==
    IF InputCount(cfg) # Len(cfg.OutputFiles) /\ ~cfg.ExecPipe
    THEN [kind |-> "count", a |-> "outputFiles", b |-> "inputFiles",
          o |-> Len(cfg.OutputFiles), f |-> InputCount(cfg)]
    ELSE NoErr

\* execPipe needs a postExec command
PostExecCheck(cfg) ==
    IF cfg.ExecPipe /\ Len(cfg.PostExec) = 0
    THEN MkErr("execPipeNeedsPostExec", "execPipe", "postExec")
    ELSE NoErr

\* execPipe forbids outputFiles
PipeOutputCheck(cfg) ==
    IF cfg.ExecPipe /\ (Len(cfg.OutputFiles) > 0 /\ cfg.OutputFiles[1] # "-")
    THEN MkErr("execPipeWithOutputFiles", "outputFiles", "execPipe")
    ELSE NoErr

\* the checks of Validate in the order the code runs them
ValidateChecks(cfg) ==
    << notTogether(<<"in", "inputFiles", "inputDir">>,
                   <<isZeroString(cfg.Input), isZeroList(cfg.InputFiles),
                     isZeroString(cfg.InputDir)>>),
       notTogether(<<"outputFiles", "outputDir", "outputMap">>,
                   <<isZeroList(cfg.OutputFiles), isZeroString(cfg.OutputDir),
                     isZeroString(cfg.OutputMap)>>),
       notTogether(<<"outputDir", "outputMap", "execPipe">>,
                   <<isZeroString(cfg.OutputDir), isZeroString(cfg.OutputMap),
                     isZeroBool(cfg.ExecPipe)>>),
       mustTogether("outputDir", "inputDir",
                    isZeroString(cfg.OutputDir), isZeroString(cfg.InputDir)),
       mustTogether("outputMap", "inputDir",
                    isZeroString(cfg.OutputMap), isZeroString(cfg.InputDir)),
       CountCheck(cfg),
       PostExecCheck(cfg),
       PipeOutputCheck(cfg) >>

\* each check runs only while err is nil: the first failure is the result
RECURSIVE FirstErr(_, _)
FirstErr(checks, i) ==
    IF i > Len(checks) THEN NoErr
    ELSE IF checks[i] # NoErr THEN checks[i]
    ELSE FirstErr(checks, i + 1)

Validate(cfg) == FirstErr(ValidateChecks(cfg), 1)

-----------------------------------------------------------------------------
(* ApplyDefaults *)

\* 5 * time.Second, in seconds
DefaultPluginTimeout == 5

DefaultOutputDir(cfg) ==
    IF cfg.InputDir # "" /\ cfg.OutputDir = "" /\ cfg.OutputMap = ""
    THEN [cfg EXCEPT !.OutputDir = "."] ELSE cfg

\* DefaultInputFiles appending "-" without looking at the list
DefaultInputFilesAppend(cfg) ==
    IF cfg.Input = "" /\ cfg.InputDir = ""
    THEN [cfg EXCEPT !.InputFiles = Append(cfg.InputFiles, "-")] ELSE cfg

DefaultInputFiles(cfg) ==
    IF cfg.Input = "" /\ cfg.InputDir = "" /\ Len(cfg.InputFiles) = 0
    THEN [cfg EXCEPT !.InputFiles = <<"-">>] ELSE cfg

DefaultOutputFiles(cfg) ==
    IF cfg.OutputDir = "" /\ cfg.OutputMap = "" /\ Len(cfg.OutputFiles) = 0
       /\ ~cfg.ExecPipe
    THEN [cfg EXCEPT !.OutputFiles = <<"-">>] ELSE cfg

DefaultDelims(cfg) ==
    [cfg EXCEPT !.LDelim = IF cfg.LDelim = "" THEN "{{" ELSE cfg.LDelim,
                !.RDelim = IF cfg.RDelim = "" THEN "}}" ELSE cfg.RDelim]

\* the stream handles: a fresh bytes.Buffer shared by both, or the process's
\* stdin and stdout
WireStreams(cfg) ==
    IF cfg.ExecPipe
    THEN [cfg EXCEPT !.PostExecInput = "buffer", !.OutWriter = "buffer",
                     !.OutputFiles = <<"-">>]
    ELSE [cfg EXCEPT !.PostExecInput = "stdin", !.OutWriter = "stdout"]

DefaultTimeout(cfg) ==
    IF cfg.PluginTimeout = 0
    THEN [cfg EXCEPT !.PluginTimeout = DefaultPluginTimeout] ELSE cfg

ApplyDefaults(cfg) ==
    DefaultTimeout(WireStreams(DefaultDelims(
        DefaultOutputFiles(DefaultInputFiles(DefaultOutputDir(cfg))))))

-----------------------------------------------------------------------------
(* MergeFrom *)

\* DSConfig.mergeFrom: the override's URL wins when it has one; its headers
\* are written name by name into the receiver's header map, and taken as a
\* whole when the receiver has none
DSConfigMergeFrom(d, od) ==
    [URL |-> IF od.URL # NilURL THEN od.URL ELSE d.URL,
     Header |->
        IF d.Header.nil THEN od.Header
        ELSE MkMap([k \in DOMAIN d.Header.m \cup DOMAIN od.Header.m |->
                        IF k \in DOMAIN od.Header.m THEN od.Header.m[k]
                        ELSE d.Header.m[k]])]

\* DSources.mergeFrom: d[k] = ... for every key of the override; the first
\* such write panics when d is the nil map
DSourcesMergeFrom(d, od) ==
    IF DOMAIN od.m = {} THEN [d |-> d, panicked |-> FALSE]
    ELSE IF d.nil THEN [d |-> d, panicked |-> TRUE]
    ELSE [d |-> MkMap([k \in DOMAIN d.m \cup DOMAIN od.m |->
                        IF k \notin DOMAIN od.m THEN d.m[k]
                        ELSE IF k \in DOMAIN d.m
                             THEN DSConfigMergeFrom(d.m[k], od.m[k])
                             ELSE od.m[k]]),
          panicked |-> FALSE]

\* PluginsMergeFrom allocating the receiver's map when it is nil
PluginsMergeFromAlloc(p, po) ==
    IF ~(Cardinality(DOMAIN po.m) > 0) THEN [d |-> p, panicked |-> FALSE]
    ELSE [d |-> MkMap([k \in DOMAIN p.m \cup DOMAIN po.m |->
                        IF k \in DOMAIN po.m THEN po.m[k] ELSE p.m[k]]),
          panicked |-> FALSE]

\* the loop over o.Plugins: c.Plugins[k] = v panics when c.Plugins is nil
PluginsMergeFrom(p, po) ==
    IF ~(Cardinality(DOMAIN po.m) > 0) THEN [d |-> p, panicked |-> FALSE]
    ELSE IF p.nil THEN [d |-> p, panicked |-> TRUE]
    ELSE [d |-> MkMap([k \in DOMAIN p.m \cup DOMAIN po.m |->
                        IF k \in DOMAIN po.m THEN po.m[k] ELSE p.m[k]]),
          panicked |-> FALSE]

\* MergeInputGroup without the exemption of inputFiles == ["-"]
MergeInputGroupNoSentinel(cfg, ov) ==
    IF ~isZeroString(ov.Input)
    THEN [cfg EXCEPT !.Input = ov.Input, !.InputDir = "",
                     !.InputFiles = <<>>, !.OutputDir = ""]
    ELSE IF ~isZeroString(ov.InputDir)
    THEN [cfg EXCEPT !.Input = "", !.InputDir = ov.InputDir,
                     !.InputFiles = <<>>]
    ELSE IF ~isZeroList(ov.InputFiles)
    THEN [cfg EXCEPT !.Input = "", !.InputFiles = ov.InputFiles,
                     !.InputDir = "", !.OutputDir = ""]
    ELSE cfg

\* the switch over the override's input, inputDir and inputFiles
MergeInputGroup(cfg, ov) ==
    IF ~isZeroString(ov.Input)
    THEN [cfg EXCEPT !.Input = ov.Input, !.InputDir = "",
                     !.InputFiles = <<>>, !.OutputDir = ""]
    ELSE IF ~isZeroString(ov.InputDir)
    THEN [cfg EXCEPT !.Input = "", !.InputDir = ov.InputDir,
                     !.InputFiles = <<>>]
    ELSE IF ~isZeroList(ov.InputFiles)
    THEN IF ~(Len(ov.InputFiles) = 1 /\ ov.InputFiles[1] = "-")
         THEN [cfg EXCEPT !.Input = "", !.InputFiles = ov.InputFiles,
                          !.InputDir = "", !.OutputDir = ""]
         ELSE cfg
    ELSE cfg

MergeOutputMap(cfg, ov) ==
    IF ~isZeroString(ov.OutputMap)
    THEN [cfg EXCEPT !.OutputDir = "", !.OutputFiles = <<>>,
                     !.OutputMap = ov.OutputMap]
    ELSE cfg

\* MergeOutputDir without the isZero guard
MergeOutputDirAlways(cfg, ov) ==
    [cfg EXCEPT !.OutputDir = ov.OutputDir, !.OutputFiles = <<>>,
                !.OutputMap = ""]

MergeOutputDir(cfg, ov) ==
    IF ~isZeroString(ov.OutputDir)
    THEN [cfg EXCEPT !.OutputDir = ov.OutputDir, !.OutputFiles = <<>>,
                     !.OutputMap = ""]
    ELSE cfg

MergeOutputFiles(cfg, ov) ==
    IF ~isZeroList(ov.OutputFiles)
    THEN [cfg EXCEPT !.OutputDir = "", !.OutputFiles = ov.OutputFiles,
                     !.OutputMap = ""]
    ELSE cfg

\* MergeExecPipe without the isZero guard
MergeExecPipeAlways(cfg, ov) ==
    [cfg EXCEPT !.ExecPipe = ov.ExecPipe, !.PostExec = ov.PostExec,
                !.OutputFiles = ov.OutputFiles]

MergeExecPipe(cfg, ov) ==
    IF ~isZeroBool(ov.ExecPipe)
    THEN [cfg EXCEPT !.ExecPipe = ov.ExecPipe, !.PostExec = ov.PostExec,
                     !.OutputFiles = ov.OutputFiles]
    ELSE cfg

\* excludes, chmod, the delimiters and templates
MergeScalars(cfg, ov) ==
    [cfg EXCEPT
        !.ExcludeGlob = IF ~isZeroList(ov.ExcludeGlob) THEN ov.ExcludeGlob ELSE @,
        !.OutMode = IF ~isZeroString(ov.OutMode) THEN ov.OutMode ELSE @,
        !.LDelim = IF ~isZeroString(ov.LDelim) THEN ov.LDelim ELSE @,
        !.RDelim = IF ~isZeroString(ov.RDelim) THEN ov.RDelim ELSE @,
        !.Templates = IF ~isZeroList(ov.Templates) THEN ov.Templates ELSE @]

\* MergeFrom mutates its receiver statement by statement: c is the receiver
\* when the call returns or panics, and panicked tells which
MergeFrom(cfg, ov) ==
    LET c1 == MergeScalars(MergeExecPipe(MergeOutputFiles(MergeOutputDir(
                  MergeOutputMap(MergeInputGroup(cfg, ov), ov), ov), ov), ov), ov)
        ds == DSourcesMergeFrom(c1.DataSources, ov.DataSources)
        c2 == [c1 EXCEPT !.DataSources = ds.d]
        cx == DSourcesMergeFrom(c2.Context, ov.Context)
        c3 == [c2 EXCEPT !.Context = cx.d]
        pl == PluginsMergeFrom(c3.Plugins, ov.Plugins)
        c4 == [c3 EXCEPT !.Plugins = pl.d]
    IN  IF ds.panicked THEN [c |-> c2, panicked |-> TRUE]
        ELSE IF cx.panicked THEN [c |-> c3, panicked |-> TRUE]
        ELSE [c |-> c4, panicked |-> pl.panicked]

-----------------------------------------------------------------------------
(* The configs and arguments the operations are run on *)

FileNames == <<"a", "b", "c", "d">>
OverrideFileNames == <<"w", "x", "y", "z">>

\* the file lists of at most n entries: named files, with or without the
\* stdin/stdout sentinel "-" in front
FileListsOf(names, n) ==
    {SubSeq(names, 1, k) : k \in 0..n}
        \cup {<<"-">> \o SubSeq(names, 1, k) : k \in 0..(n - 1)}

FileLists(n) == FileListsOf(FileNames, n)

\* no flags
NoFlags == [datasources |-> <<>>, contexts |-> <<>>, headers |-> <<>>]

\* err before any operation has returned
Unchecked == MkErr("unchecked", "", "")

\* the configs that reach Validate and ApplyDefaults: every combination of
\* the input and output selectors, execPipe, postExec, a delimiter and the
\* plugin timeout
FinalizeConfigs ==
    {[EmptyConfig EXCEPT !.Input = t[1], !.InputDir = t[2], !.InputFiles = t[3],
                         !.OutputFiles = t[4], !.OutputDir = t[5],
                         !.OutputMap = t[6], !.ExecPipe = t[7],
                         !.PostExec = t[8], !.LDelim = t[9],
                         !.PluginTimeout = t[10]] :
        t \in {"", "hello"} \X {"", "src"} \X FileLists(MaxFiles)
              \X FileLists(MaxFiles) \X {"", "out"} \X {"", "map"}
              \X BOOLEAN \X {<<>>, <<"cat">>} \X {"", "[["} \X {0, 9}}

-----------------------------------------------------------------------------
(* Validate and ApplyDefaults on a populated config *)

Init ==
    /\ c \in FinalizeConfigs
    /\ pre = c
    /\ o = EmptyConfig
    /\ flags = NoFlags
    /\ op = "new"
    /\ err = Unchecked
    /\ panicked = FALSE
    /\ applied = 0

\* Validate has a value receiver: c is left alone.  The caller validates
\* before it applies the defaults.
ValidateStep ==
    /\ ~panicked
    /\ applied = 0
    /\ op # "Validate"
    /\ err' = Validate(c)
    /\ op' = "Validate"
    /\ pre' = c
    /\ UNCHANGED <<c, o, flags, panicked, applied>>

ApplyDefaultsStep ==
    /\ ~panicked
    /\ applied < MaxApply
    /\ c' = ApplyDefaults(c)
    /\ pre' = c
    /\ op' = "ApplyDefaults"
    /\ applied' = applied + 1
    /\ UNCHANGED <<o, flags, err, panicked>>

Next == ValidateStep \/ ApplyDefaultsStep

Spec == Init /\ [][Next]_vars

-----------------------------------------------------------------------------
(* Properties of Validate and ApplyDefaults, checked under Spec *)

\* how many of the output selectors outputFiles, outputDir, outputMap are set
OutputsSet(cfg) ==
    (IF Len(cfg.OutputFiles) > 0 THEN 1 ELSE 0)
        + (IF cfg.OutputDir # "" THEN 1 ELSE 0)
        + (IF cfg.OutputMap # "" THEN 1 ELSE 0)

\* C2: ApplyDefaults is idempotent: a second (or later) run of ApplyDefaults
\* leaves every persisted field and the kind of both stream handles as the
\* run before left them.
C2_ApplyDefaultsIdempotent ==
    (op = "ApplyDefaults" /\ applied >= 2) => c = pre

\* C2 witness: ApplyDefaults has run twice on a config whose output
\* directory, input files, delimiters and timeout all came from the defaults.
C2_Witness ==
    /\ op = "ApplyDefaults" /\ applied = 2
    /\ c.InputDir = "src" /\ c.OutputDir = "." /\ c.LDelim = "{{"
    /\ c.PluginTimeout = DefaultPluginTimeout /\ c.OutWriter = "stdout"

\* C3: a config that Validate accepted has, once ApplyDefaults has run, at
\* most one of outputFiles, outputDir and outputMap set.
C3_OutputsExclusiveAfterDefaults ==
    (op = "ApplyDefaults" /\ applied = 1 /\ err = NoErr) => OutputsSet(c) <= 1

\* the shape C4 is about: two inputFiles and one outputFiles
TwoInOneOut(cfg) == Len(cfg.InputFiles) = 2 /\ Len(cfg.OutputFiles) = 1

\* the input count as C4 words it
C4_Inputs(cfg) ==
    IF Len(cfg.InputFiles) = 0
    THEN (IF cfg.Input # "" THEN 1 ELSE 0)
    ELSE Len(cfg.InputFiles)

\* checks 1 to 5 of Validate pass
C4_SelectorsOk(cfg) ==
    /\ (IF cfg.Input # "" THEN 1 ELSE 0) + (IF Len(cfg.InputFiles) > 0 THEN 1 ELSE 0)
         + (IF cfg.InputDir # "" THEN 1 ELSE 0) <= 1
    /\ OutputsSet(cfg) <= 1
    /\ (IF cfg.OutputDir # "" THEN 1 ELSE 0) + (IF cfg.OutputMap # "" THEN 1 ELSE 0)
         + (IF cfg.ExecPipe THEN 1 ELSE 0) <= 1
    /\ (cfg.OutputDir # "" => cfg.InputDir # "")
    /\ (cfg.OutputMap # "" => cfg.InputDir # "")

\* C4 as stated: Validate rejects every config with two inputFiles and one
\* outputFiles when execPipe is false and accepts it when execPipe is true
\* (here even with a postExec command given and no other selector set).
C4_AsStated ==
    (op = "Validate" /\ TwoInOneOut(c)
        /\ c.Input = "" /\ c.InputDir = "" /\ c.OutputDir = "" /\ c.OutputMap = ""
        /\ Len(c.PostExec) > 0)
    => (IF c.ExecPipe THEN err = NoErr ELSE err # NoErr)

\* C4 amended: Validate rejects every config with two inputFiles and one
\* outputFiles when execPipe is false; when execPipe is true it never reports
\* the count mismatch for such a config and accepts it exactly when no other
\* check fails (no other selector set, postExec non-empty, the output file
\* "-"); in general the count mismatch is reported exactly when execPipe is
\* false, the counts differ and no earlier check failed.
C4_CountCheckUnlessExecPipe ==
    op = "Validate" =>
        /\ (TwoInOneOut(c) /\ ~c.ExecPipe) => err # NoErr
        /\ (TwoInOneOut(c) /\ c.ExecPipe) =>
              (err = NoErr <=>
                  /\ c.Input = "" /\ c.InputDir = ""
                  /\ c.OutputDir = "" /\ c.OutputMap = ""
                  /\ Len(c.PostExec) > 0
                  /\ c.OutputFiles = <<"-">>)
        /\ err.kind = "count" <=>
              /\ ~c.ExecPipe
              /\ C4_Inputs(c) # Len(c.OutputFiles)
              /\ C4_SelectorsOk(c)
        /\ err.kind = "count" => (err.o = Len(c.OutputFiles) /\ err.f = C4_Inputs(c))

\* C4 witness: Validate has accepted a config with two inputFiles, one
\* outputFiles and execPipe set.
C4_Witness ==
    op = "Validate" /\ TwoInOneOut(c) /\ c.ExecPipe /\ err = NoErr

\* C5: with execPipe set and a postExec command, Validate returns an error
\* for every outputFiles other than the empty list and ["-"].
C5_ExecPipeRejectsOutputFiles ==
    (op = "Validate" /\ c.ExecPipe /\ Len(c.PostExec) > 0
        /\ c.OutputFiles \notin {<<>>, <<"-">>})
    => err # NoErr

-----------------------------------------------------------------------------
(* MergeFrom on the input and output selectors *)

\* one call of c.MergeFrom(ov); a panic ends the program
DoMerge(ov) ==
    /\ ~panicked
    /\ op = "new"
    /\ LET r == MergeFrom(c, ov)
       IN  /\ c' = r.c
           /\ panicked' = r.panicked
    /\ pre' = c
    /\ o' = ov
    /\ op' = "MergeFrom"
    /\ UNCHANGED <<flags, err, applied>>

\* a config with the given selectors; execPipe comes with its postExec
SelectorConfig(in, dir, files, ofiles, odir, omap, pipe, cmd) ==
    [EmptyConfig EXCEPT !.Input = in, !.InputDir = dir, !.InputFiles = files,
                        !.OutputFiles = ofiles, !.OutputDir = odir,
                        !.OutputMap = omap, !.ExecPipe = pipe,
                        !.PostExec = IF pipe THEN <<cmd>> ELSE <<>>]

\* the base configs (file config) of the selector merges
MergeBases ==
    {SelectorConfig(t[1], t[2], t[3], t[4], t[5], t[6], t[7], "cat") :
        t \in {"", "hello"} \X {"", "src"} \X FileLists(MaxMergeFiles)
              \X FileLists(MaxMergeFiles) \X {"", "out"} \X {"", "map"}
              \X BOOLEAN}

\* the overrides (flag config) of the selector merges
MergeOverrides ==
    {SelectorConfig(t[1], t[2], t[3], t[4], t[5], t[6], t[7], "tee") :
        t \in {"", "world"} \X {"", "tpl"} \X FileListsOf(OverrideFileNames, MaxMergeFiles)
              \X FileListsOf(OverrideFileNames, MaxMergeFiles)
              \X {"", "dst"} \X {"", "expr"} \X BOOLEAN}

InitOf(configs) ==
    /\ c \in configs
    /\ pre = c
    /\ o = EmptyConfig
    /\ flags = NoFlags
    /\ op = "new"
    /\ err = Unchecked
    /\ panicked = FALSE
    /\ applied = 0

InitMerge == InitOf(MergeBases)

MergeFromStep == \E ov \in MergeOverrides : DoMerge(ov)

SpecMerge == InitMerge /\ [][MergeFromStep]_vars

\* how many of input, inputDir, inputFiles are non-zero
InputsSet(cfg) ==
    (IF cfg.Input # "" THEN 1 ELSE 0)
        + (IF cfg.InputDir # "" THEN 1 ELSE 0)
        + (IF Len(cfg.InputFiles) > 0 THEN 1 ELSE 0)

InputGroup(cfg) == <<cfg.Input, cfg.InputDir, cfg.InputFiles>>
OutputGroup(cfg) == <<cfg.OutputDir, cfg.OutputFiles, cfg.OutputMap>>

\* the override sets no output field and no execPipe
OutputsZero(cfg) ==
    /\ cfg.OutputMap = "" /\ cfg.OutputDir = ""
    /\ Len(cfg.OutputFiles) = 0 /\ ~cfg.ExecPipe

\* C6 as stated: an override whose outputMap, outputDir, outputFiles and
\* execPipe are all zero leaves base's outputDir, outputFiles and outputMap
\* as they were, whichever input field it sets.
C6_AsStated ==
    (op = "MergeFrom" /\ OutputsZero(o)) => OutputGroup(c) = OutputGroup(pre)

\* the override replaces the input group with input or with inputFiles
C6_ClearsOutputDir(ov) ==
    \/ ov.Input # ""
    \/ ov.InputDir = "" /\ ov.InputFiles \notin {<<>>, <<"-">>}

\* C6 amended: an override whose outputMap, outputDir, outputFiles and
\* execPipe are all zero leaves base's outputFiles and outputMap as they
\* were; base's outputDir is cleared when the override's input, or (input and
\* inputDir being zero) its inputFiles other than ["-"], replaces the input
\* group, and is left as it was otherwise.
C6_OutputsKeptButOutputDir ==
    (op = "MergeFrom" /\ OutputsZero(o)) =>
        /\ c.OutputFiles = pre.OutputFiles
        /\ c.OutputMap = pre.OutputMap
        /\ c.OutputDir = IF C6_ClearsOutputDir(o) THEN "" ELSE pre.OutputDir

\* C6 witness: an override that sets only input was merged into a base with
\* an outputDir, which the merge cleared.
C6_Witness ==
    /\ op = "MergeFrom" /\ OutputsZero(o)
    /\ o.Input # "" /\ pre.OutputDir # "" /\ c.OutputDir = ""

\* the first clause of C7: one input field of the override is non-zero, it is
\* not inputFiles == ["-"], and base's input group becomes the override's
C7_Replaces ==
    (InputsSet(o) = 1 /\ o.InputFiles # <<"-">>) => InputGroup(c) = InputGroup(o)

\* the last clause of C7: at most one input field in, at most one out
C7_AtMostOne ==
    (InputsSet(pre) <= 1 /\ InputsSet(o) <= 1) => InputsSet(c) <= 1

\* C7 as stated: the override's single non-zero input field replaces base's
\* input group; an override whose inputFiles is ["-"], or whose three input
\* fields are zero, leaves base's input group as it was; at most one input
\* field each gives at most one.
C7_AsStated ==
    op = "MergeFrom" =>
        /\ C7_Replaces
        /\ (o.InputFiles = <<"-">> \/ InputsSet(o) = 0)
              => InputGroup(c) = InputGroup(pre)
        /\ C7_AtMostOne

\* C7 amended: as stated, but inputFiles == ["-"] leaves base's input group
\* as it was only when the override's input and inputDir are zero.
C7_InputGroupRule ==
    op = "MergeFrom" =>
        /\ C7_Replaces
        /\ ((o.InputFiles = <<"-">> /\ o.Input = "" /\ o.InputDir = "")
                \/ InputsSet(o) = 0)
              => InputGroup(c) = InputGroup(pre)
        /\ C7_AtMostOne

\* C7 witness: an override with only inputFiles == ["-"] was merged into a
\* base with an inline input, which is still there.
C7_Witness ==
    /\ op = "MergeFrom"
    /\ o.InputFiles = <<"-">> /\ o.Input = "" /\ o.InputDir = ""
    /\ pre.Input # "" /\ c.Input = pre.Input

-----------------------------------------------------------------------------
(* MergeFrom on the datasource, context and plugin mappings *)

AliasNames == <<"foo", "bar", "baz", "qux">>
Aliases == {AliasNames[i] : i \in 1..MaxAliases}

\* descriptors as Parse and the flags build them: the URL is always resolved
BaseDSConfigs ==
    {[URL |-> "file:///wd/base.json", Header |-> h] :
        h \in {NilMap, MkMap("Accept" :> <<"text/base">> @@ "X-Base" :> <<"b1", "b2">>)}}

\* descriptors of an override: with or without URL, with or without headers
OverrideDSConfigs ==
    {[URL |-> t[1], Header |-> t[2]] :
        t \in {NilURL, "http://host/over.json"}
              \X {NilMap, MkMap("Accept" :> <<"text/over">> @@ "Authorization" :> <<"tok">>)}}

\* the DSources values over the aliases: the nil map, and every map from a
\* set of aliases to the descriptors
DSourcesOver(cfgs) ==
    {NilMap} \cup {MkMap(f) : f \in UNION {[S -> cfgs] : S \in SUBSET Aliases}}

BasePlugins ==
    {NilMap, EmptyMap, MkMap("p" :> "/base/p"),
     MkMap("p" :> "/base/p" @@ "q" :> "/base/q")}

OverridePlugins ==
    {NilMap, EmptyMap, MkMap("p" :> "/over/p"), MkMap("r" :> "/over/r"),
     MkMap("p" :> "/over/p" @@ "r" :> "/over/r")}

MapBases ==
    {[EmptyConfig EXCEPT !.DataSources = t[1], !.Context = t[2], !.Plugins = t[3]] :
        t \in DSourcesOver(BaseDSConfigs)
              \X {NilMap, MkMap("foo" :> [URL |-> "file:///wd/ctx.json", Header |-> NilMap])}
              \X BasePlugins}

MapOverrides ==
    {[EmptyConfig EXCEPT !.DataSources = t[1], !.Context = t[2], !.Plugins = t[3]] :
        t \in DSourcesOver(OverrideDSConfigs)
              \X {NilMap,
                  MkMap("foo" :> [URL |-> "http://host/ctx.json", Header |-> NilMap]),
                  MkMap("env" :> [URL |-> "http://host/env.json", Header |-> NilMap])}
              \X OverridePlugins}

InitMergeMaps == InitOf(MapBases)

MergeMapsStep == \E ov \in MapOverrides : DoMerge(ov)

SpecMergeMaps == InitMergeMaps /\ [][MergeMapsStep]_vars

\* the entries of a possibly nil header map, override's names written over
\* base's
C9_Headers(b, ov) ==
    [n \in DOMAIN b.m \cup DOMAIN ov.m |->
        IF n \in DOMAIN ov.m THEN ov.m[n] ELSE b.m[n]]

\* r is b merged key by key with ov, as C9 describes it
C9_Merged(b, ov, r) ==
    /\ DOMAIN r.m = DOMAIN b.m \cup DOMAIN ov.m
    /\ \A k \in DOMAIN ov.m \ DOMAIN b.m : r.m[k] = ov.m[k]
    /\ \A k \in DOMAIN b.m \ DOMAIN ov.m : r.m[k] = b.m[k]
    /\ \A k \in DOMAIN b.m \cap DOMAIN ov.m :
          /\ r.m[k].URL = IF ov.m[k].URL # NilURL THEN ov.m[k].URL ELSE b.m[k].URL
          /\ r.m[k].Header.m = C9_Headers(b.m[k].Header, ov.m[k].Header)

\* C9: MergeFrom merges the datasource and the context mapping key by key
\* for every base, a base whose mapping is unset included: keys only in the
\* override are inserted as they are, keys in both keep base's URL unless the
\* override has one and get the override's headers written over base's, keys
\* only in base are left alone.
C9_MapsMergedKeyByKey ==
    op = "MergeFrom" =>
        /\ C9_Merged(pre.DataSources, o.DataSources, c.DataSources)
        /\ C9_Merged(pre.Context, o.Context, c.Context)

\* the part of C9 the code keeps: the same, for bases whose datasource and
\* context mappings are both initialized
C9_InitializedMapsMerged ==
    (op = "MergeFrom" /\ ~pre.DataSources.nil /\ ~pre.Context.nil) =>
        /\ C9_Merged(pre.DataSources, o.DataSources, c.DataSources)
        /\ C9_Merged(pre.Context, o.Context, c.Context)

\* the merge does not fail before it reaches the plugins
C10_MapsDoNotFail ==
    /\ pre.DataSources.nil => DOMAIN o.DataSources.m = {}
    /\ pre.Context.nil => DOMAIN o.Context.m = {}

\* C10: with base's plugin mapping initialized, a merge that returns leaves
\* in it every override entry and base's other entries; with base's plugin
\* mapping unset and at least one override plugin the merge fails; with no
\* override plugin the merge does not fail on account of the plugins.
C10_PluginRule ==
    op = "MergeFrom" =>
        /\ (~pre.Plugins.nil /\ ~panicked) =>
              /\ ~c.Plugins.nil
              /\ DOMAIN c.Plugins.m = DOMAIN pre.Plugins.m \cup DOMAIN o.Plugins.m
              /\ \A k \in DOMAIN o.Plugins.m : c.Plugins.m[k] = o.Plugins.m[k]
              /\ \A k \in DOMAIN pre.Plugins.m \ DOMAIN o.Plugins.m :
                    c.Plugins.m[k] = pre.Plugins.m[k]
        /\ (pre.Plugins.nil /\ DOMAIN o.Plugins.m # {}) =>
              (panicked /\ c.Plugins = pre.Plugins)
        /\ (DOMAIN o.Plugins.m = {} /\ C10_MapsDoNotFail) =>
              (~panicked /\ c.Plugins = pre.Plugins)
        /\ (~pre.Plugins.nil /\ C10_MapsDoNotFail) => ~panicked

\* C10 witness: an override with a plugin was merged into a base with
\* initialized datasources and context but no plugin mapping, and the merge
\* panicked.
C10_Witness ==
    /\ op = "MergeFrom" /\ panicked
    /\ pre.Plugins.nil /\ DOMAIN o.Plugins.m # {}
    /\ ~pre.DataSources.nil /\ ~pre.Context.nil
    /\ DOMAIN o.DataSources.m # {}

-----------------------------------------------------------------------------
(* MergeFrom with the empty override *)

\* every combination of set and unset selectors, execPipe, postExec,
\* delimiters and mappings
AnyConfigs ==
    {[EmptyConfig EXCEPT !.Input = t[1], !.InputDir = t[2], !.InputFiles = t[3],
                         !.OutputFiles = t[4], !.OutputDir = t[5],
                         !.OutputMap = t[6], !.ExecPipe = t[7],
                         !.PostExec = t[8], !.LDelim = t[9][1],
                         !.RDelim = t[9][2], !.DataSources = t[10],
                         !.Context = t[11], !.Plugins = t[12]] :
        t \in {"", "hello"} \X {"", "src"} \X FileLists(MaxMergeFiles)
              \X FileLists(MaxMergeFiles) \X {"", "out"} \X {"", "map"}
              \X BOOLEAN \X {<<>>, <<"cat">>}
              \X {<<"", "">>, <<"[[", "">>, <<"[[", "]]">>}
              \X {NilMap, EmptyMap,
                  MkMap("foo" :> [URL |-> "file:///wd/base.json",
                                  Header |-> MkMap("Accept" :> <<"text/base">>)])}
              \X {NilMap, MkMap("foo" :> [URL |-> "file:///wd/ctx.json", Header |-> NilMap])}
              \X {NilMap, EmptyMap, MkMap("p" :> "/base/p")}}

InitMergeEmpty == InitOf(AnyConfigs)

MergeEmptyStep == DoMerge(EmptyConfig)

SpecMergeEmpty == InitMergeEmpty /\ [][MergeEmptyStep]_vars

\* C1: merging the empty Config into any Config returns without a panic and
\* leaves every field of the receiver as it was.
C1_EmptyOverrideIsNoOp ==
    (op = "MergeFrom" /\ o = EmptyConfig) => (~panicked /\ c = pre)

\* C1 witness: the empty Config was merged into a config with a set input,
\* outputFiles, execPipe and delimiters and with all three mappings unset.
C1_Witness ==
    /\ op = "MergeFrom" /\ o = EmptyConfig
    /\ pre.Input # "" /\ Len(pre.OutputFiles) > 0 /\ pre.ExecPipe
    /\ pre.LDelim # "" /\ pre.DataSources.nil /\ pre.Context.nil
    /\ pre.Plugins.nil
    /\ c.ExecPipe /\ Len(c.OutputFiles) > 0

-----------------------------------------------------------------------------
(* Command-line arguments.  An argument is a sequence of tokens: each of   *)
(* the characters "=", ":", ".", "/" and " " is a token of its own, and a  *)
(* run of other characters is one token.                                   *)

\* the string the tokens spell, from token i on
RECURSIVE JoinFrom(_, _)
JoinFrom(toks, i) ==
    IF i > Len(toks) THEN "" ELSE toks[i] \o JoinFrom(toks, i + 1)

Join(toks) == JoinFrom(toks, 1)

\* the first index of sep in s, 0 when there is none
RECURSIVE IndexFrom(_, _, _)
IndexFrom(s, sep, i) ==
    IF i > Len(s) THEN 0
    ELSE IF s[i] = sep THEN i
    ELSE IndexFrom(s, sep, i + 1)

\* strings.SplitN(s, sep, 2)
SplitN2(s, sep) ==
    LET i == IndexFrom(s, sep, 1)
    IN  IF i = 0 THEN <<s>>
        ELSE <<SubSeq(s, 1, i - 1), SubSeq(s, i + 1, Len(s))>>

\* the first index from i on, and the last index up to i, that holds no space
RECURSIVE FirstNonSpace(_, _)
FirstNonSpace(s, i) ==
    IF i > Len(s) \/ s[i] # " " THEN i ELSE FirstNonSpace(s, i + 1)

RECURSIVE LastNonSpace(_, _)
LastNonSpace(s, i) ==
    IF i < 1 \/ s[i] # " " THEN i ELSE LastNonSpace(s, i - 1)

\* strings.TrimSpace
TrimSpace(s) == SubSeq(s, FirstNonSpace(s, 1), LastNonSpace(s, Len(s)))

\* http.CanonicalHeaderKey on the header names of the model: the first
\* letter and every letter after a hyphen upper case, the others lower case
CanonicalHeaderKey(name) ==
    CASE name \in {"x-api-key", "X-API-KEY", "X-Api-Key"} -> "X-Api-Key"
      [] name \in {"accept", "ACCEPT", "Accept"} -> "Accept"
      [] OTHER -> name

\* the last index up to i that holds no "/", 0 when there is none
RECURSIVE LastNonSlash(_, _)
LastNonSlash(f, i) ==
    IF i < 1 \/ f[i] # "/" THEN i ELSE LastNonSlash(f, i - 1)

\* the last index up to i that holds a "/", 0 when there is none
RECURSIVE LastSlash(_, _)
LastSlash(f, i) ==
    IF i < 1 \/ f[i] = "/" THEN i ELSE LastSlash(f, i - 1)

\* path.Base: the last element of the path, trailing slashes dropped; "."
\* for the empty path and "/" for a path of slashes
PathBase(f) ==
    LET e == LastNonSlash(f, Len(f))
    IN  IF Len(f) = 0 THEN <<".">>
        ELSE IF e = 0 THEN <<"/">>
        ELSE SubSeq(f, LastSlash(f, e) + 1, e)

\* the working directory os.Getwd returns
WorkDir == "/wd"

\* url.Parse: a leading ":" is a missing scheme, a first token followed by
\* ":" is the scheme
ParseURL(v) ==
    IF v # <<>> /\ v[1] = ":"
    THEN [err |-> MkErr("urlParse", Join(v), "missing protocol scheme"),
          Scheme |-> "", Rest |-> <<>>]
    ELSE IF Len(v) >= 2 /\ v[2] = ":" /\ v[1] \notin {"=", ".", "/", " "}
    THEN [err |-> NoErr, Scheme |-> v[1], Rest |-> SubSeq(v, 3, Len(v))]
    ELSE [err |-> NoErr, Scheme |-> "", Rest |-> v]

\* absFileURL: the value resolved against file://<wd>/
absFileURL(value) ==
    LET rel == ParseURL(value)
    IN  IF rel.err # NoErr
        THEN [err |-> MkErr("cantParseValue", Join(value), rel.err.b), URL |-> NilURL]
        ELSE IF rel.Scheme # ""
        THEN [err |-> NoErr, URL |-> rel.Scheme \o ":" \o Join(rel.Rest)]
        ELSE IF rel.Rest # <<>> /\ rel.Rest[1] = "/"
        THEN [err |-> NoErr, URL |-> "file://" \o Join(rel.Rest)]
        ELSE [err |-> NoErr, URL |-> "file://" \o WorkDir \o "/" \o Join(rel.Rest)]

\* parseSourceURL on a platform without volume names
parseSourceURL(value) ==
    LET v == IF value = <<"-">> THEN <<"stdin", ":", "/", "/">> ELSE value
        srcURL == ParseURL(v)
    IN  IF srcURL.err # NoErr THEN [err |-> srcURL.err, URL |-> NilURL]
        ELSE IF srcURL.Scheme = "" THEN absFileURL(v)
        ELSE [err |-> NoErr, URL |-> srcURL.Scheme \o ":" \o Join(srcURL.Rest)]

parseDatasourceArg(value) ==
    LET parts == SplitN2(value, "=")
    IN  IF Len(parts) = 1
        THEN LET f == parts[1]
                 key == Join(SplitN2(value, ".")[1])
             IN  IF PathBase(f) # f
                 THEN [key |-> key, ds |-> ZeroDSConfig,
                       err |-> MkErr("invalidDatasource", Join(value), "")]
                 ELSE LET u == absFileURL(f)
                      IN  [key |-> key,
                           ds |-> [ZeroDSConfig EXCEPT !.URL = u.URL],
                           err |-> u.err]
        ELSE LET u == parseSourceURL(parts[2])
             IN  [key |-> Join(parts[1]),
                  ds |-> [ZeroDSConfig EXCEPT !.URL = u.URL],
                  err |-> u.err]

\* the loops over the datasource and the context arguments: the map is
\* allocated on the first entry, and the first error ends the loop
RECURSIVE ParseDatasourceArgs(_, _, _)
ParseDatasourceArgs(d, args, i) ==
    IF i > Len(args) THEN [d |-> d, err |-> NoErr]
    ELSE LET r == parseDatasourceArg(args[i])
         IN  IF r.err # NoErr THEN [d |-> d, err |-> r.err]
             ELSE ParseDatasourceArgs(
                      MkMap([k \in DOMAIN d.m \cup {r.key} |->
                                IF k = r.key THEN r.ds ELSE d.m[k]]),
                      args, i + 1)

splitHeader(header) ==
    LET parts == SplitN2(header, ":")
    IN  IF Len(parts) # 2
        THEN [name |-> "", value |-> <<>>,
              err |-> MkErr("invalidHeaderFormat", Join(header), "")]
        ELSE [name |-> CanonicalHeaderKey(Join(parts[1])), value |-> parts[2],
              err |-> NoErr]

splitHeaderArg(arg) ==
    LET parts == SplitN2(arg, "=")
    IN  IF Len(parts) # 2
        THEN [alias |-> "", name |-> "", value |-> <<>>,
              err |-> MkErr("invalidHeaderOption", Join(arg), "")]
        ELSE LET h == splitHeader(parts[2])
             IN  [alias |-> Join(parts[1]), name |-> h.name, value |-> h.value,
                  err |-> h.err]

\* the loop of parseHeaderArgs from argument i on, headers being the map
\* built so far (alias -> header name -> values)
RECURSIVE parseHeaderArgsFrom(_, _, _)
parseHeaderArgsFrom(headers, args, i) ==
    IF i > Len(args) THEN [h |-> headers, err |-> NoErr]
    ELSE LET a == splitHeaderArg(args[i])
         IN  IF a.err # NoErr THEN [h |-> <<>>, err |-> a.err]
             ELSE LET old == IF a.alias \in DOMAIN headers
                             THEN headers[a.alias] ELSE <<>>
                      vals == IF a.name \in DOMAIN old THEN old[a.name] ELSE <<>>
                      new == [n \in DOMAIN old \cup {a.name} |->
                                IF n = a.name
                                THEN Append(vals, Join(TrimSpace(a.value)))
                                ELSE old[n]]
                  IN  parseHeaderArgsFrom(
                          [k \in DOMAIN headers \cup {a.alias} |->
                              IF k = a.alias THEN new ELSE headers[k]],
                          args, i + 1)

parseHeaderArgs(headerArgs) == parseHeaderArgsFrom(<<>>, headerArgs, 1)

\* the loop over hdrs on one of the two mappings: d.Header = v for every
\* alias the mapping holds
AttachHeaders(d, hdrs) ==
    [d EXCEPT !.m = [k \in DOMAIN d.m |->
                        IF k \in DOMAIN hdrs
                        THEN [d.m[k] EXCEPT !.Header = MkMap(hdrs[k])]
                        ELSE d.m[k]]]

\* hdrs after the deletes of the loop
RemainingHeaders(cfg, hdrs) ==
    [k \in DOMAIN hdrs \ (DOMAIN cfg.Context.m \cup DOMAIN cfg.DataSources.m) |->
        hdrs[k]]

\* the end of ParseDataSourceFlags, from parseHeaderArgs on: the headers
\* go to the descriptors of their aliases and what is left to ExtraHeaders
ReconcileHeaders(cfg, hd) ==
    LET attached == [cfg EXCEPT
                        !.Context = AttachHeaders(cfg.Context, hd.h),
                        !.DataSources = AttachHeaders(cfg.DataSources, hd.h)]
        rest == RemainingHeaders(cfg, hd.h)
    IN  IF hd.err # NoErr THEN [c |-> cfg, err |-> hd.err]
        ELSE [c |-> IF Cardinality(DOMAIN rest) > 0
                    THEN [attached EXCEPT !.ExtraHeaders = MkMap(rest)]
                    ELSE attached,
              err |-> NoErr]

\* ParseDataSourceFlags: c is the receiver when the call returns, err what
\* it returns.  (x \in {e} names the value of e, which is then computed
\* once.)
ParseDataSourceFlags(cfg, datasources, contexts, headers) ==
    CHOOSE r \in
        { IF ds.err # NoErr
          THEN [c |-> [cfg EXCEPT !.DataSources = ds.d], err |-> ds.err]
          ELSE IF cx.err # NoErr
          THEN [c |-> [cfg EXCEPT !.DataSources = ds.d, !.Context = cx.d],
                err |-> cx.err]
          ELSE ReconcileHeaders(
                   [cfg EXCEPT !.DataSources = ds.d, !.Context = cx.d], hd) :
            ds \in {ParseDatasourceArgs(cfg.DataSources, datasources, 1)},
            cx \in {ParseDatasourceArgs(cfg.Context, contexts, 1)},
            hd \in {parseHeaderArgs(headers)} } : TRUE

-----------------------------------------------------------------------------
(* ParseDataSourceFlags on a parsed or a fresh config *)

\* all sequences over S of length at most n
SeqsUpTo(S, n) == UNION {[1..k -> S] : k \in 0..n}

\* alias=location and bare location arguments: a relative path, a bare
\* file, a bare path with a directory (refused), stdin, a URL, a location
\* url.Parse refuses
DatasourceArgs ==
    { <<"foo", "=", "bar", "/", "data", ".", "json">>,
      <<"data", ".", "json">>,
      <<"dir", "/", "data", ".", "json">>,
      <<"in", "=", "-">>,
      <<"web", "=", "http", ":", "/", "/", "host", "/", "x">>,
      <<"bad", "=", ":", "x">> }

ContextArgs == { <<"ctx", "=", "http", ":", "/", "/", "host", "/", "ctx">> }

\* alias=Header-Name: value arguments: two spellings of one header of foo,
\* a header of ctx, a header of an alias no mapping holds (its value holds a
\* colon), and two malformed arguments
HeaderArgs ==
    { <<"foo", "=", "x-api-key", ":", " ", "abc123", " ">>,
      <<"foo", "=", "X-API-KEY", ":", "def456">>,
      <<"ctx", "=", "accept", ":", " ", "text", "/", "plain">>,
      <<"tmpl", "=", "Accept", ":", "a", ":", "b">>,
      <<"nosep">>,
      <<"foo", "=", "nocolon">> }

\* the configs ParseDataSourceFlags is called on: fresh, or parsed from a
\* document that defines a datasource foo, with or without headers
FlagConfigs ==
    {[EmptyConfig EXCEPT !.DataSources = t[1], !.Context = t[2]] :
        t \in {NilMap,
               MkMap("foo" :> [URL |-> "file:///wd/base.json", Header |-> NilMap]),
               MkMap("foo" :> [URL |-> "file:///wd/base.json",
                               Header |-> MkMap("Accept" :> <<"text/base">>)])}
              \X {NilMap,
                  MkMap("ctx" :> [URL |-> "file:///wd/ctx.json", Header |-> NilMap])}}

InitFlags == InitOf(FlagConfigs)

ParseDataSourceFlagsStep ==
    /\ ~panicked
    /\ op = "new"
    /\ \E ds \in SeqsUpTo(DatasourceArgs, MaxDatasourceArgs),
          cx \in SeqsUpTo(ContextArgs, 1),
          hs \in SeqsUpTo(HeaderArgs, MaxHeaderArgs) :
            LET r == ParseDataSourceFlags(c, ds, cx, hs)
            IN  /\ c' = r.c
                /\ err' = r.err
                /\ flags' = [datasources |-> ds, contexts |-> cx, headers |-> hs]
    /\ pre' = c
    /\ op' = "ParseDataSourceFlags"
    /\ UNCHANGED <<o, panicked, applied>>

SpecFlags == InitFlags /\ [][ParseDataSourceFlagsStep]_vars

\* the aliases the datasource (context) arguments of the call define
C8_ArgAliases(args) == {parseDatasourceArg(args[i]).key : i \in 1..Len(args)}

\* the headers a descriptor had before the header arguments were attached:
\* none when the call itself created the descriptor
C8_Before(before, args, alias) ==
    IF alias \in C8_ArgAliases(args) \/ alias \notin DOMAIN before.m
    THEN <<>> ELSE before.m[alias].Header.m

\* after holds the parsed headers h merged into the headers before
C8_MergedInto(before, h, after) ==
    /\ DOMAIN after = DOMAIN before \cup DOMAIN h
    /\ \A n \in DOMAIN h : after[n] = h[n]
    /\ \A n \in DOMAIN before \ DOMAIN h : after[n] = before[n]

\* C8: after a ParseDataSourceFlags that returned no error, every header
\* alias that names a datasource or a context has its parsed headers merged
\* into that descriptor's headers, the headers the descriptor had under
\* other names kept, and is no key of ExtraHeaders; every other header alias
\* is a key of ExtraHeaders with its values in argument order.
C8_HeadersReconciled ==
    (op = "ParseDataSourceFlags" /\ err = NoErr) =>
        LET hdrs == parseHeaderArgs(flags.headers).h
        IN  \A alias \in DOMAIN hdrs :
              /\ alias \in DOMAIN c.DataSources.m =>
                    /\ C8_MergedInto(
                           C8_Before(pre.DataSources, flags.datasources, alias),
                           hdrs[alias], c.DataSources.m[alias].Header.m)
                    /\ alias \notin DOMAIN c.ExtraHeaders.m
              /\ alias \in DOMAIN c.Context.m =>
                    /\ C8_MergedInto(
                           C8_Before(pre.Context, flags.contexts, alias),
                           hdrs[alias], c.Context.m[alias].Header.m)
                    /\ alias \notin DOMAIN c.ExtraHeaders.m
              /\ alias \notin DOMAIN c.DataSources.m \cup DOMAIN c.Context.m =>
                    /\ alias \in DOMAIN c.ExtraHeaders.m
                    /\ c.ExtraHeaders.m[alias] = hdrs[alias]

\* the part of C8 the code keeps: the same, when no descriptor of the
\* receiver had headers before the call
C8_FreshDescriptorsReconciled ==
    (\A k \in DOMAIN pre.DataSources.m : DOMAIN pre.DataSources.m[k].Header.m = {})
        => C8_HeadersReconciled

\* the repeated header of foo accumulates in argument order, canonical and
\* trimmed
C8_Accumulates ==
    (op = "ParseDataSourceFlags" /\ err = NoErr
        /\ flags.headers = << <<"foo", "=", "x-api-key", ":", " ", "abc123", " ">>,
                              <<"foo", "=", "X-API-KEY", ":", "def456">> >>
        /\ "foo" \in DOMAIN c.DataSources.m)
    => c.DataSources.m["foo"].Header.m = ("X-Api-Key" :> <<"abc123", "def456">>)

====
